---- MODULE Spec2Model ----
(***************************************************************************)
(* A model of the arthSpark ETL pipeline:                                  *)
(*   fred_api_extractor.py  the catalog and the extraction client          *)
(*   data_transformer.py    transform_fred_data, the cleaning stage        *)
(*   db_loader.py           the two upsert loaders                         *)
(*   main.py                get_last_load_date and run_etl_pipeline        *)
(*                                                                         *)
(* A DataFrame is a sequence of row records, in row order.  A database     *)
(* table is a set of row records.  A float is a record [kind, v] whose     *)
(* kind is "num" or "nan"; a raw cell may also hold a non-numeric object   *)
(* (kind "str").  A date is a day number (days since 1970-01-01), the      *)
(* timestamps of datetime.now() are readings of the clock variable now.    *)
(***************************************************************************)
EXTENDS Integers, Sequences, FiniteSets, TLC

---------------------------------------------------------------------------
(* Bounds of the model.                                                    *)

\* series of the catalog that are modelled (FRED_SERIES_METADATA has 8)
NumSeries == 2
\* observation dates the provider publishes, per series
MaxObs == 2
\* distinct numeric observation values
NumValues == 2
\* largest reading of the clock
MaxClock == 1
\* pipeline runs in one behaviour
MaxRuns == 2
\* calls of load_economic_time_series_data in one behaviour
MaxCalls == 3
\* rows of a raw batch handed to transform_fred_data (mixed identifiers)
MaxRows == 3
\* dates of a raw batch handed to transform_fred_data (mixed identifiers)
MaxDates == 2
\* numeric values of a raw batch handed to transform_fred_data (mixed identifiers)
MaxVals == 1
\* rows of a single-series raw batch
MaxLen == 4

---------------------------------------------------------------------------
(* Program constants.                                                      *)

\* main.py:51  timedelta(days=90)
OverlapDays == 90

\* fred_api_extractor.py:28-93  the keys of FRED_SERIES_METADATA, in order
AllSeries == <<"GDP", "GDPC1", "CPIAUCSL", "UNRATE", "INDPRO", "DCOILWTICO",
               "MHHNGSP", "FEDFUNDS">>

\* the modelled part of the catalog, in catalog order
Catalog == SubSeq(AllSeries, 1, NumSeries)

Series == {Catalog[i] : i \in 1..Len(Catalog)}

---------------------------------------------------------------------------
(* Calendar dates: datetime.date / pandas Timestamp at midnight.           *)

\* the day number of the civil date y-m-d (proleptic Gregorian calendar)
DaysFromCivil(y, m, d) ==
    LET yy  == IF m <= 2 THEN y - 1 ELSE y
        era == yy \div 400
        yoe == yy - era * 400
        mp  == IF m > 2 THEN m - 3 ELSE m + 9
        doy == (153 * mp + 2) \div 5 + d - 1
        doe == yoe * 365 + yoe \div 4 - yoe \div 100 + doy
    IN  era * 146097 + doe - 719468

\* strftime('%Y-%m-%d') of a day number: the text YYYY-MM-DD as <<Y, M, D>>
Strftime(days) ==
    LET z   == days + 719468
        era == z \div 146097
        doe == z - era * 146097
        yoe == (doe - doe \div 1460 + doe \div 36524 - doe \div 146096) \div 365
        doy == doe - (365 * yoe + yoe \div 4 - yoe \div 100)
        mp  == (5 * doy + 2) \div 153
        d   == doy - (153 * mp + 2) \div 5 + 1
        m   == IF mp < 10 THEN mp + 3 ELSE mp - 9
        y   == yoe + era * 400 + (IF m <= 2 THEN 1 ELSE 0)
    IN  <<y, m, d>>

\* the first day of month k of 2024 (the dates of the dummy batch)
MonthStart(k) == DaysFromCivil(2024, k, 1)

---------------------------------------------------------------------------
(* Floats and raw cells.                                                   *)

NaN == [kind |-> "nan", v |-> 0]
Num(n) == [kind |-> "num", v |-> n]
\* a cell holding an object pd.to_numeric cannot parse
Junk == [kind |-> "str", v |-> 0]

\* the numeric observation values: 100.0, 102.0, ...
ValueOf(i) == Num(100 + 2 * (i - 1))

isnull(x) == x.kind = "nan"

\* pd.to_numeric(..., errors='coerce') on one cell
to_numeric(x) == IF x.kind = "str" THEN NaN ELSE x

\* a raw date cell: a timestamp, or an object pd.to_datetime cannot parse
Ts(day) == [kind |-> "ts", day |-> day]
BadDate == [kind |-> "str", day |-> 0]

---------------------------------------------------------------------------
(* State.                                                                  *)

VARIABLES
    now,                  \* the clock read by datetime.now()
    economic_time_series_data,   \* the committed rows of the observation table
    series_metadata,      \* the committed rows of the metadata table
    pc,                   \* run_etl_pipeline: the statement it is at
    runs,                 \* pipeline runs / loader calls started so far
    idx,                  \* run_etl_pipeline: position in all_series_ids
    fetch_start_date,     \* run_etl_pipeline: the start date handed to extraction
    series_data_df,       \* run_etl_pipeline: the raw batch of the current series
    visited,              \* series whose processing has begun in this run
    failed,               \* the series and stages that raised in this run
    lpc,                  \* load_economic_time_series_data: the statement it is at
    data_df,              \* load_economic_time_series_data: its argument
    pos,                  \* load_economic_time_series_data: rows executed so far
    txn,                  \* the table as the open connection sees it
    before,               \* the committed table when the current call began
    prev,                 \* the latest loader call made directly: its frame and outcome
    df,                   \* transform_fred_data: its argument
    result,               \* transform_fred_data: its outcome
    progress              \* how far each series got in this run

vars == <<now, economic_time_series_data, series_metadata, pc, runs, idx,
          fetch_start_date, series_data_df, visited, failed, lpc, data_df, pos,
          txn, before, prev, df, result, progress>>

---------------------------------------------------------------------------
(* data_transformer.py: transform_fred_data.                               *)

Key(r) == <<r.series_id, r.date>>

\* the rows of a frame whose index is in keep, in row order
TakeRows(rows, keep) ==
    LET F[i \in 0..Len(rows)] ==
            IF i = 0 THEN <<>>
            ELSE IF i \in keep THEN Append(F[i - 1], rows[i]) ELSE F[i - 1]
    IN  F[Len(rows)]

SetMax(S) == CHOOSE x \in S : \A y \in S : y <= x
SetMin(S) == CHOOSE x \in S : \A y \in S : x <= y

\* line 26: pd.to_datetime raises on a cell it cannot parse
to_datetime_raises(d) == \E i \in 1..Len(d) : d[i].date.kind = "str"

\* lines 26, 30: the frame with parsed dates and numeric values
Parsed(d) ==
    [i \in 1..Len(d) |->
        [series_id |-> d[i].series_id,
         date      |-> d[i].date.day,
         value     |-> to_numeric(d[i].value)]]

\* ffill without the groupby: the last valid value of any preceding row
PlainFfill(rows) ==
    [i \in 1..Len(rows) |->
        IF ~isnull(rows[i].value) THEN rows[i]
        ELSE LET P == {j \in 1..(i - 1) : ~isnull(rows[j].value)}
             IN  IF P = {} THEN rows[i]
                 ELSE [rows[i] EXCEPT !.value = rows[SetMax(P)].value]]

\* line 42: groupby('series_id')['value'].ffill(): a missing value takes the
\* last valid value of a preceding row of the same series_id, in row order
GroupFfill(rows) ==
    [i \in 1..Len(rows) |->
        IF ~isnull(rows[i].value) THEN rows[i]
        ELSE LET P == {j \in 1..(i - 1) :
                          /\ rows[j].series_id = rows[i].series_id
                          /\ ~isnull(rows[j].value)}
             IN  IF P = {} THEN rows[i]
                 ELSE [rows[i] EXCEPT !.value = rows[SetMax(P)].value]]

\* line 43: groupby('series_id')['value'].bfill(): a value still missing takes
\* the first valid value of a following row of the same series_id
GroupBfill(rows) ==
    [i \in 1..Len(rows) |->
        IF ~isnull(rows[i].value) THEN rows[i]
        ELSE LET P == {j \in (i + 1)..Len(rows) :
                          /\ rows[j].series_id = rows[i].series_id
                          /\ ~isnull(rows[j].value)}
             IN  IF P = {} THEN rows[i]
                 ELSE [rows[i] EXCEPT !.value = rows[SetMin(P)].value]]

\* line 50: dropna(subset=['value'])
dropna(rows) == TakeRows(rows, {i \in 1..Len(rows) : ~isnull(rows[i].value)})

\* lines 37-50: fill, then drop what is still missing
HandleMissing(rows) ==
    IF \E i \in 1..Len(rows) : isnull(rows[i].value)
    THEN dropna(GroupBfill(GroupFfill(rows)))
    ELSE rows

\* no removal of duplicates at all
KeepAll(rows) == rows

\* line 55: drop_duplicates(subset=['series_id', 'date']), keep='first'
drop_duplicates(rows) ==
    TakeRows(rows, {i \in 1..Len(rows) :
                       \A j \in 1..(i - 1) : Key(rows[j]) # Key(rows[i])})

\* line 60: the processed_at column
Stamp(rows, ts) ==
    [i \in 1..Len(rows) |->
        [series_id |-> rows[i].series_id, date |-> rows[i].date,
         value |-> rows[i].value, processed_at |-> ts]]

Returned(rows) == [status |-> "ok", error |-> "", rows |-> rows]
Raised(e) == [status |-> "raised", error |-> e, rows |-> <<>>]
Pending == [status |-> "pending", error |-> "", rows |-> <<>>]

\* lines 6-63: the outcome of transform_fred_data(d) called at clock ts
transform_fred_data(d, ts) ==
    IF Len(d) = 0 THEN Returned(<<>>)                       \* lines 17-19
    ELSE IF to_datetime_raises(d) THEN Raised("ParserError")   \* line 26
    ELSE LET cleaned == drop_duplicates(HandleMissing(Parsed(d)))
         IN  IF Len(cleaned) = 0
             THEN Raised("IndexError")                      \* line 62: iloc[0]
             ELSE Returned(Stamp(cleaned, ts))              \* line 63

---------------------------------------------------------------------------
(* db_loader.py: the tables and the upserts.                               *)

\* the row the INSERT of lines 127-145 proposes for one frame row, at clock ts:
\* row['date'].date() of a midnight timestamp is its day
DbRow(row, ts) ==
    [series_id |-> row.series_id, date |-> row.date, value |-> row.value,
     processed_at |-> row.processed_at, updated_at |-> ts]

\* the conflict clause leaves the stored row as it is
InsertOrIgnore(table, new) ==
    IF \E r \in table : Key(r) = Key(new) THEN table ELSE table \cup {new}

\* the statement stamps processed_at itself instead of taking the frame's
InsertRestamped(table, new) ==
    IF \E r \in table : Key(r) = Key(new)
    THEN {IF Key(r) = Key(new)
          THEN [r EXCEPT !.value = new.value, !.processed_at = new.updated_at,
                         !.updated_at = new.updated_at]
          ELSE r : r \in table}
    ELSE table \cup {[new EXCEPT !.processed_at = new.updated_at]}

\* an insert that replaces every stored row of the series with the new row
InsertReplacingSeries(table, new) ==
    {r \in table : r.series_id # new.series_id} \cup {new}

\* lines 127-134: INSERT ... ON CONFLICT (series_id, date) DO UPDATE SET
\* value, processed_at, updated_at = EXCLUDED.*
InsertOnConflictUpdate(table, new) ==
    IF \E r \in table : Key(r) = Key(new)
    THEN {IF Key(r) = Key(new)
          THEN [r EXCEPT !.value = new.value, !.processed_at = new.processed_at,
                         !.updated_at = new.updated_at]
          ELSE r : r \in table}
    ELSE table \cup {new}

\* every statement is committed as it is executed
Autocommit(committed, seen) == seen

\* lines 121, 149-151: the with block is left by an exception before
\* connection.commit(): the connection is closed and its work rolled back
Rollback(committed, seen) == committed

\* main.py lines 11-19: SELECT MAX(date) ... WHERE series_id = :series_id,
\* <<>> for None
get_last_load_date(table, s) ==
    LET D == {r.date : r \in {x \in table : x.series_id = s}}
    IN  IF D = {} THEN <<>> ELSE <<SetMax(D)>>

\* the fetch starts at the watermark itself
FetchFromWatermark(last) == IF last # <<>> THEN Strftime(last[1]) ELSE <<>>

\* main.py lines 49-56: the start date handed to extraction, <<>> for None
ComputeFetchStart(last) ==
    IF last # <<>> THEN Strftime(last[1] - OverlapDays) ELSE <<>>

\* fred_api_extractor.py lines 35-91: observation_start of the eight series,
\* the text YYYY-MM-DD as <<Y, M, D>>
ObservationStarts ==
    <<<<1947, 1, 1>>, <<1947, 1, 1>>, <<1947, 1, 1>>, <<1948, 1, 1>>,
      <<1919, 1, 1>>, <<1986, 1, 2>>, <<1997, 1, 1>>, <<1954, 7, 1>>>>

\* revision rev of the text of a descriptive field
Text(field, rev) == <<field, rev>>

\* fred_api_extractor.py lines 158-166: one row of the metadata frame
MetadataRow(s, rev, obs) ==
    [series_id |-> s,
     series_name |-> Text("name", rev),
     description |-> Text("description", rev),
     units |-> Text("units", rev),
     frequency |-> Text("frequency", rev),
     seasonal_adjustment |-> Text("seasonal_adjustment", rev),
     observation_start |-> obs]

\* fred_api_extractor.py lines 152-168: the frame of the catalog, one row per
\* series in catalog order
get_series_metadata ==
    [i \in 1..Len(Catalog) |-> MetadataRow(Catalog[i], 1, ObservationStarts[i])]

\* datetime.strptime(t, '%Y-%m-%d').date(): <<day number>>, or <<>> where it
\* raises ValueError (no such month, no such day of the month)
strptime(t) ==
    IF /\ t[2] \in 1..12
       /\ t[3] \in 1..31
       /\ Strftime(DaysFromCivil(t[1], t[2], t[3])) = t
    THEN <<DaysFromCivil(t[1], t[2], t[3])>>
    ELSE <<>>

\* db_loader.py lines 61-68: obs_start_date_obj: the parsed date, NULL (<<>>)
\* for None and for a text that does not parse
ObsStartDate(raw) == IF raw # <<>> THEN strptime(raw) ELSE <<>>

\* db_loader.py lines 71, 87-99: the values bound to the INSERT at clock ts
MetadataValues(row, ts) ==
    [series_id |-> row.series_id,
     series_name |-> row.series_name,
     description |-> row.description,
     units |-> row.units,
     frequency |-> row.frequency,
     seasonal_adjustment |-> row.seasonal_adjustment,
     observation_start |-> ObsStartDate(row.observation_start),
     created_at |-> ts,
     updated_at |-> ts]

\* an upsert that replaces the whole row, created_at included
UpsertReplacingRow(table, row, ts) ==
    {r \in table : r.series_id # row.series_id} \cup {MetadataValues(row, ts)}

\* db_loader.py lines 74-84: INSERT ... ON CONFLICT (series_id) DO UPDATE of
\* one row of the frame at clock ts: every column but series_id and
\* created_at is overwritten
UpsertMetadata(table, row, ts) ==
    LET new == MetadataValues(row, ts)
    IN  IF \E r \in table : r.series_id = new.series_id
        THEN {IF r.series_id = new.series_id
              THEN [new EXCEPT !.created_at = r.created_at]
              ELSE r : r \in table}
        ELSE table \cup {new}

\* db_loader.py lines 50-101: load_series_metadata(metadata_df) that commits:
\* the rows of the frame upserted in frame order (none for an empty frame)
load_series_metadata(table, metadata_df, ts) ==
    LET F[i \in 0..Len(metadata_df)] ==
            IF i = 0 THEN table
            ELSE UpsertMetadata(F[i - 1], metadata_df[i], ts)
    IN  F[Len(metadata_df)]

\* main.py lines 32-33: all the rows of get_series_metadata(), committed
LoadAllMetadata(table, ts) == load_series_metadata(table, get_series_metadata, ts)

---------------------------------------------------------------------------
(* fred_api_extractor.py: what the provider can return.                    *)

\* the dates the provider publishes observations for: 2024-02-01, 2024-06-01, ...
ProviderDates == {DaysFromCivil(2024, 4 * k - 2, 1) : k \in 1..MaxObs}

\* the floats fred.get_series returns
ProviderValues == {ValueOf(i) : i \in 1..NumValues} \cup {NaN}

\* the frame of lines 124-126 for observations obs (a function date -> value):
\* one row per date, ascending
FrameOf(s, obs) ==
    LET F[D \in SUBSET DOMAIN obs] ==
            IF D = {} THEN <<>>
            ELSE LET d == SetMax(D)
                 IN  Append(F[D \ {d}],
                            [series_id |-> s, date |-> Ts(d), value |-> obs[d]])
    IN  F[DOMAIN obs]

\* lines 97-132: the frames get_fred_series_data(s, start) can return: the
\* empty frame (no data, or an error caught at line 130), or observations on
\* or after the start date
get_fred_series_data(s, start) ==
    LET from == IF start = <<>> THEN {}
                ELSE {DaysFromCivil(start[1], start[2], start[3])}
        Avail == {d \in ProviderDates : \A f \in from : d >= f}
    IN  {<<>>} \cup
        UNION {{FrameOf(s, obs) : obs \in [D -> ProviderValues]} :
                  D \in (SUBSET Avail) \ {{}}}

---------------------------------------------------------------------------
(* The clock.                                                              *)

\* time passes between two readings of datetime.now()
Tick ==
    /\ now < MaxClock
    /\ now' = now + 1
    /\ UNCHANGED <<progress, economic_time_series_data, series_metadata, pc, runs, idx,
                   fetch_start_date, series_data_df, visited, failed, lpc,
                   data_df, pos, txn, before, prev, df, result>>

---------------------------------------------------------------------------
(* db_loader.py: load_economic_time_series_data, statement by statement.   *)

loaderVars == <<lpc, data_df, pos, txn, before>>

\* lines 108-121: the call: an empty frame returns at once (lines 114-116),
\* otherwise a connection is opened on the committed table
LoaderCall(batch) ==
    /\ data_df' = batch
    /\ before' = economic_time_series_data
    /\ txn' = economic_time_series_data
    /\ pos' = 0
    /\ lpc' = IF Len(batch) = 0 THEN "returned" ELSE "rows"

\* lines 122-145: one turn of the loop: the upsert of the next row, stamped
\* with the clock's reading, inside the open transaction
LoaderExecuteRow ==
    /\ lpc = "rows"
    /\ pos < Len(data_df)
    /\ txn' = InsertOnConflictUpdate(txn, DbRow(data_df[pos + 1], now))
    /\ pos' = pos + 1
    /\ UNCHANGED <<progress, now, economic_time_series_data, series_metadata, pc, runs,
                   idx, fetch_start_date, series_data_df, visited, failed, lpc,
                   data_df, before, prev, df, result>>

\* line 146: connection.commit() after the last row
LoaderCommit ==
    /\ lpc = "rows"
    /\ pos = Len(data_df)
    /\ economic_time_series_data' = txn
    /\ lpc' = "returned"
    /\ UNCHANGED <<progress, now, series_metadata, pc, runs, idx, fetch_start_date,
                   series_data_df, visited, failed, data_df, pos, txn, before,
                   prev, df, result>>

\* lines 118-151: get_db_engine(), an execute or the commit raises (the store
\* is unreachable, the connection is lost, a constraint is violated): the
\* exception leaves the with block and is raised again at line 151
LoaderRaise ==
    /\ lpc = "rows"
    /\ economic_time_series_data' = Rollback(economic_time_series_data, txn)
    /\ lpc' = "raised"
    /\ UNCHANGED <<progress, now, series_metadata, pc, runs, idx, fetch_start_date,
                   series_data_df, visited, failed, data_df, pos, txn, before,
                   prev, df, result>>

\* db_loader.py lines 166-183: a frame is fetched, cleaned and loaded; or the
\* frame of the previous call is loaded once more
LoadBatches(ts) ==
    {transform_fred_data(f, ts).rows :
        f \in UNION {get_fred_series_data(s, <<>>) : s \in Series}}

CallLoader ==
    /\ lpc \in {"idle", "returned", "raised"}
    /\ runs < MaxCalls
    /\ \E batch \in LoadBatches(now) \cup (IF runs > 0 THEN {data_df} ELSE {}) :
           LoaderCall(batch)
    /\ prev' = [batch |-> data_df, outcome |-> lpc]
    /\ runs' = runs + 1
    /\ UNCHANGED <<progress, now, economic_time_series_data, series_metadata, pc, idx,
                   fetch_start_date, series_data_df, visited, failed, df, result>>

---------------------------------------------------------------------------
(* main.py: run_etl_pipeline, statement by statement.                      *)

\* lines 27-39: a run begins: the metadata is loaded and committed, or
\* load_series_metadata raises (db_loader.py line 106) and the run ends
RunPipeline ==
    /\ pc \in {"idle", "done", "aborted"}
    /\ runs < MaxRuns
    /\ runs' = runs + 1
    /\ visited' = {}
    /\ failed' = {}
    /\ progress' = [s \in Series |-> "pending"]
    /\ idx' = 1
    /\ \/ /\ series_metadata' = LoadAllMetadata(series_metadata, now)
          /\ pc' = "plan"
       \/ /\ series_metadata' = series_metadata
          /\ pc' = "aborted"
    /\ UNCHANGED <<now, economic_time_series_data, fetch_start_date,
                   series_data_df, lpc, data_df, pos, txn, before, prev, df,
                   result>>

\* lines 41-56: the next series: its watermark and its fetch start
PlanFetch ==
    /\ pc = "plan"
    /\ idx <= Len(Catalog)
    /\ fetch_start_date' =
           ComputeFetchStart(get_last_load_date(economic_time_series_data,
                                                Catalog[idx]))
    /\ visited' = visited \cup {Catalog[idx]}
    /\ pc' = "extract"
    /\ UNCHANGED <<progress, now, economic_time_series_data, series_metadata, runs, idx,
                   series_data_df, failed, lpc, data_df, pos, txn, before, prev,
                   df, result>>

\* lines 58-64: extract_all_fred_data(fetch_start_date).get(series_id): the
\* frames of the other series are fetched and dropped; None or an empty
\* frame ends the series
Extract ==
    /\ pc = "extract"
    /\ \E f \in get_fred_series_data(Catalog[idx], fetch_start_date) :
           /\ series_data_df' = f
           /\ progress' = [progress EXCEPT ![Catalog[idx]] =
                                       IF Len(f) = 0 THEN "empty" ELSE "data"]
           /\ IF Len(f) = 0
              THEN pc' = "plan" /\ idx' = idx + 1
              ELSE pc' = "transform" /\ idx' = idx
    /\ UNCHANGED <<now, economic_time_series_data, series_metadata, runs,
                   fetch_start_date, visited, failed, lpc, data_df, pos, txn,
                   before, prev, df, result>>

\* lines 66-74: the frame is cleaned; an exception of transform_fred_data
\* ends the run, an empty result ends the series, anything else is loaded
Transform ==
    /\ pc = "transform"
    /\ LET r == transform_fred_data(series_data_df, now)
       IN  IF r.status = "raised"
           THEN /\ pc' = "aborted"
                /\ failed' = failed \cup {[series |-> Catalog[idx], stage |-> "transform"]}
                /\ UNCHANGED <<idx, progress, loaderVars>>
           ELSE IF Len(r.rows) = 0
           THEN /\ pc' = "plan"
                /\ idx' = idx + 1
                /\ UNCHANGED <<failed, progress, loaderVars>>
           ELSE /\ pc' = "load"
                /\ LoaderCall(r.rows)
                /\ progress' = [progress EXCEPT ![Catalog[idx]] = "loading"]
                /\ UNCHANGED <<idx, failed>>
    /\ UNCHANGED <<now, economic_time_series_data, series_metadata, runs,
                   fetch_start_date, series_data_df, visited, prev, df, result>>

\* lines 74-75: the loader returned: the next series
LoadReturned ==
    /\ pc = "load"
    /\ lpc = "returned"
    /\ pc' = "plan"
    /\ idx' = idx + 1
    /\ progress' = [progress EXCEPT ![Catalog[idx]] = "loaded"]
    /\ lpc' = "idle"
    /\ UNCHANGED <<now, economic_time_series_data, series_metadata, runs,
                   fetch_start_date, series_data_df, visited, failed, data_df,
                   pos, txn, before, prev, df, result>>

\* line 74: the loader raised: nothing in run_etl_pipeline catches it
LoadRaised ==
    /\ pc = "load"
    /\ lpc = "raised"
    /\ pc' = "aborted"
    /\ failed' = failed \cup {[series |-> Catalog[idx], stage |-> "load"]}
    /\ lpc' = "idle"
    /\ UNCHANGED <<progress, now, economic_time_series_data, series_metadata, runs, idx,
                   fetch_start_date, series_data_df, visited, data_df, pos, txn,
                   before, prev, df, result>>

\* lines 77-81: the loop is over: the run ends normally
FinishRun ==
    /\ pc = "plan"
    /\ idx > Len(Catalog)
    /\ pc' = "done"
    /\ UNCHANGED <<progress, now, economic_time_series_data, series_metadata, runs, idx,
                   fetch_start_date, series_data_df, visited, failed, lpc,
                   data_df, pos, txn, before, prev, df, result>>

---------------------------------------------------------------------------
(* data_transformer.py lines 67-96: transform_fred_data called on a frame. *)

CallTransform ==
    /\ result.status = "pending"
    /\ result' = transform_fred_data(df, now)
    /\ UNCHANGED <<progress, now, economic_time_series_data, series_metadata, pc, runs,
                   idx, fetch_start_date, series_data_df, visited, failed, lpc,
                   data_df, pos, txn, before, prev, df>>

\* raw frames of at most n rows over the given identifiers, dates and cells
RawFrames(n, ids, dates, cells) ==
    UNION {[1..k -> [series_id : ids, date : dates, value : cells]] : k \in 0..n}

---------------------------------------------------------------------------
(* db_loader.py lines 44-106: load_series_metadata called on a frame.      *)

\* the observation_start cells of a metadata frame: None, a date, and texts
\* that strptime rejects
ObsTexts == {<<>>, <<1947, 1, 1>>, <<1947, 2, 30>>, <<1947, 13, 1>>}

\* the frame of the series in S at revision rev, in catalog order, with the
\* observation_start cells obs (a function series -> cell)
MetadataFrame(S, rev, obs) ==
    LET F[i \in 0..Len(Catalog)] ==
            IF i = 0 THEN <<>>
            ELSE IF Catalog[i] \in S
                 THEN Append(F[i - 1],
                             MetadataRow(Catalog[i], rev, obs[Catalog[i]]))
                 ELSE F[i - 1]
    IN  F[Len(Catalog)]

MetadataFrames ==
    UNION {{MetadataFrame(S, rev, obs) : rev \in 1..NumValues, obs \in [S -> ObsTexts]} :
              S \in SUBSET Series}

\* one call: an empty frame returns at line 52; otherwise every row is
\* upserted and committed (line 101), or an exception leaves the connection
\* block before the commit and nothing is kept (lines 103-106)
CallLoadMetadata ==
    /\ runs < MaxCalls
    /\ \E frame \in MetadataFrames :
           \/ /\ series_metadata' = load_series_metadata(series_metadata, frame, now)
              /\ prev' = [batch |-> frame, outcome |-> "returned"]
           \/ /\ Len(frame) > 0
              /\ series_metadata' = Rollback(series_metadata,
                     load_series_metadata(series_metadata, frame, now))
              /\ prev' = [batch |-> frame, outcome |-> "raised"]
    /\ runs' = runs + 1
    /\ UNCHANGED <<progress, now, economic_time_series_data, pc, idx, fetch_start_date,
                   series_data_df, visited, failed, lpc, data_df, pos, txn,
                   before, df, result>>

---------------------------------------------------------------------------
(* Specifications.                                                         *)

InitStore ==
    /\ now = 0
    /\ economic_time_series_data = {}
    /\ series_metadata = {}
    /\ pc = "idle"
    /\ runs = 0
    /\ idx = 0
    /\ fetch_start_date = <<>>
    /\ series_data_df = <<>>
    /\ visited = {}
    /\ failed = {}
    /\ lpc = "idle"
    /\ data_df = <<>>
    /\ pos = 0
    /\ txn = {}
    /\ before = {}
    /\ prev = [batch |-> <<>>, outcome |-> "none"]
    /\ progress = [s \in Series |-> "pending"]

\* the pipeline on a fresh store
Init ==
    /\ InitStore
    /\ df = <<>>
    /\ result = Pending

Next ==
    \/ Tick
    \/ RunPipeline
    \/ PlanFetch
    \/ Extract
    \/ Transform
    \/ LoaderExecuteRow
    \/ LoaderCommit
    \/ LoaderRaise
    \/ LoadReturned
    \/ LoadRaised
    \/ FinishRun

Spec == Init /\ [][Next]_vars

\* the loader called on cleaned frames, on a fresh store
NextLoader ==
    \/ Tick
    \/ CallLoader
    \/ LoaderExecuteRow
    \/ LoaderCommit
    \/ LoaderRaise

SpecLoader == Init /\ [][NextLoader]_vars

\* load_series_metadata called on metadata frames, on a fresh store
NextMetadata ==
    \/ Tick
    \/ CallLoadMetadata

SpecMetadata == Init /\ [][NextMetadata]_vars

\* transform_fred_data on frames of floats that mix two identifiers
MixedIds == {AllSeries[1], AllSeries[2]}

InitMixed ==
    /\ InitStore
    /\ df \in RawFrames(MaxRows, MixedIds,
                        {Ts(MonthStart(k)) : k \in 1..MaxDates},
                        {ValueOf(i) : i \in 1..MaxVals} \cup {NaN})
    /\ result = Pending

NextTransform == CallTransform

SpecMixed == InitMixed /\ [][NextTransform]_vars

\* transform_fred_data on frames of one identifier, any cells
InitSingle ==
    /\ InitStore
    /\ df \in RawFrames(MaxLen, {AllSeries[1]},
                        {Ts(MonthStart(k)) : k \in 1..MaxLen} \cup {BadDate},
                        {ValueOf(i) : i \in 1..NumValues} \cup {NaN, Junk})
    /\ result = Pending

SpecSingle == InitSingle /\ [][NextTransform]_vars

---------------------------------------------------------------------------
(* Claims.                                                                 *)

KeysOf(rows) == {Key(rows[i]) : i \in 1..Len(rows)}

\* the last row of a frame that has key k
LastWithKey(rows, k) == rows[SetMax({i \in 1..Len(rows) : Key(rows[i]) = k})]

\* a table without its updated_at column
WithoutUpdatedAt(table) ==
    {[series_id |-> r.series_id, date |-> r.date, value |-> r.value,
      processed_at |-> r.processed_at] : r \in table}

\* the same non-empty frame has been loaded twice in a row, both calls returning
LoadedTwice ==
    /\ lpc = "returned"
    /\ prev.outcome = "returned"
    /\ prev.batch = data_df
    /\ Len(data_df) > 0

\* C1: a persistence error raised while a series is processed does not end
\* the run: the run is never aborted by a failed load, and a run that ends
\* has taken every series of the catalog through its processing.
C1_FailureIsolation ==
    /\ \A f \in failed : f.stage = "load" => pc # "aborted"
    /\ pc = "done" => visited = Series

\* C2 as stated: after the same frame is loaded twice, the table, all columns
\* included, is what it was after the first load.
C2_SameBatchTwiceIdentical ==
    LoadedTwice => economic_time_series_data = before

\* C2 as amended: after the same frame is loaded twice, the table has the
\* keys, values and processed_at it had after the first load, and its rows
\* outside the frame are untouched; only updated_at of the frame's rows is
\* written again.
C2_SameBatchTwiceSameValues ==
    LoadedTwice =>
        /\ WithoutUpdatedAt(economic_time_series_data) = WithoutUpdatedAt(before)
        /\ \A r \in economic_time_series_data :
               Key(r) \notin KeysOf(data_df) => r \in before

C2_Witness ==
    /\ LoadedTwice
    /\ economic_time_series_data # before

C4_OneRowPerKey ==
    /\ \A r1, r2 \in economic_time_series_data : Key(r1) = Key(r2) => r1 = r2
    /\ lpc = "returned" =>
           \A r \in economic_time_series_data :
               IF Key(r) \in KeysOf(data_df)
               THEN r.value = LastWithKey(data_df, Key(r)).value
               ELSE r \in before

\* a run has merged a revised value into a key that was already stored
C4_Witness ==
    /\ pc = "load"
    /\ lpc = "returned"
    /\ \E r \in economic_time_series_data : \E q \in before :
           Key(r) = Key(q) /\ r.value # q.value

\* C5: a load that raises leaves the store as it was when the call began,
\* nothing of the frame is visible before the commit, and a load that
\* returns has stored every row of the frame.
C5_AllOrNothing ==
    /\ lpc \in {"rows", "raised"} => economic_time_series_data = before
    /\ lpc = "returned" =>
           \A i \in 1..Len(data_df) :
               \E r \in economic_time_series_data :
                   /\ Key(r) = Key(data_df[i])
                   /\ r.value = data_df[i].value
                   /\ r.processed_at = data_df[i].processed_at

\* a load raised after it had written some of its rows
C5_Witness ==
    /\ lpc = "raised"
    /\ pos > 0
    /\ pos < Len(data_df)
    /\ txn # before

\* C6: the output of transform_fred_data has no two rows with the same
\* (series_id, date).
C6_UniqueKeys ==
    result.status = "ok" =>
        \A i, j \in 1..Len(result.rows) :
            Key(result.rows[i]) = Key(result.rows[j]) => i = j

\* a frame with a repeated key was cleaned
C6_Witness ==
    /\ result.status = "ok"
    /\ \E i, j \in 1..Len(df) :
           /\ i < j
           /\ df[i].series_id = df[j].series_id
           /\ df[i].date = df[j].date
           /\ df[i].value.kind = "num"
           /\ df[j].value.kind = "num"

\* C7: the row kept for a repeated (series_id, date) carries the value of the
\* last raw row with that key (stated for a last row whose value is valid).
C7_LastWriteWins ==
    result.status = "ok" =>
        \A k \in 1..Len(result.rows) :
            LET I == {i \in 1..Len(df) :
                         /\ df[i].series_id = result.rows[k].series_id
                         /\ df[i].date = Ts(result.rows[k].date)}
                last == df[SetMax(I)]
            IN  last.value.kind = "num" => result.rows[k].value = last.value

AllMissing(d) ==
    /\ Len(d) > 0
    /\ \A i \in 1..Len(d) : d[i].date.kind = "ts" /\ d[i].value.kind # "num"

\* C8: a non-empty single-series frame whose values are all missing or
\* unparseable is cleaned to an empty output, without an error.
C8_AllMissingGivesEmpty ==
    (AllMissing(df) /\ result.status # "pending") => result = Returned(<<>>)

\* C9: every value of the output is an original valid value of a raw row of
\* the same series_id, so that a series with no valid value has no output row.
C9_FillWithinSeries ==
    result.status = "ok" =>
        \A k \in 1..Len(result.rows) :
            \E i \in 1..Len(df) :
                /\ df[i].series_id = result.rows[k].series_id
                /\ df[i].value.kind = "num"
                /\ df[i].value = result.rows[k].value

\* a frame of two identifiers was cleaned and a gap of one of them was filled
C9_Witness ==
    /\ result.status = "ok"
    /\ \E i, j \in 1..Len(df) : df[i].series_id # df[j].series_id
    /\ \E k \in 1..Len(result.rows) :
           \A i \in 1..Len(df) :
               (df[i].series_id = result.rows[k].series_id
                    /\ df[i].date = Ts(result.rows[k].date))
               => df[i].value.kind # "num"

\* the dummy frame of data_transformer.py lines 88-92
DummyFrame ==
    [i \in 1..4 |->
        [series_id |-> AllSeries[1], date |-> Ts(MonthStart(i)),
         value |-> IF i = 1 THEN Num(100) ELSE IF i = 3 THEN Num(102) ELSE NaN]]

\* the dates of a frame all parse and are pairwise distinct
DistinctDates(d) ==
    /\ \A i \in 1..Len(d) : d[i].date.kind = "ts"
    /\ \A i, j \in 1..Len(d) : d[i].date = d[j].date => i = j

\* the value the claim gives the date day of frame d: that of the nearest
\* earlier-dated valid row, else that of the nearest later-dated valid row
NearestByDate(d, day) ==
    LET V == {i \in 1..Len(d) : to_numeric(d[i].value).kind = "num"}
        E == {i \in V : d[i].date.day < day}
        L == {i \in V : d[i].date.day > day}
    IN  IF E # {}
        THEN d[CHOOSE i \in E : \A j \in E : d[j].date.day <= d[i].date.day].value
        ELSE d[CHOOSE i \in L : \A j \in L : d[i].date.day <= d[j].date.day].value

\* C10: in a single-series frame given in any order (its dates distinct),
\* each missing value is filled from the nearest earlier-dated valid row,
\* else from the nearest later-dated one; the dummy frame cleans to
\* 100, 100, 102, 102 with no row dropped.
C10_FillByDate ==
    (result.status = "ok" /\ DistinctDates(df)) =>
        /\ Len(result.rows) = Len(df)
        /\ \A i \in 1..Len(df) :
               to_numeric(df[i].value).kind = "nan" =>
                   \E k \in 1..Len(result.rows) :
                       /\ result.rows[k].date = df[i].date.day
                       /\ result.rows[k].value = NearestByDate(df, df[i].date.day)
        /\ df = DummyFrame =>
               [k \in 1..4 |-> result.rows[k].value.v] = <<100, 100, 102, 102>>

\* the dummy frame has been cleaned as data_transformer.py's own test expects
DummyFrameCleaned ==
    (df = DummyFrame /\ result.status # "pending") =>
        /\ result.status = "ok"
        /\ [k \in 1..Len(result.rows) |-> result.rows[k].value.v]
               = <<100, 100, 102, 102>>

\* the rows of a frame whose date parses
ParseableRows(d) == TakeRows(d, {i \in 1..Len(d) : d[i].date.kind = "ts"})

\* C11: transform_fred_data does not fail on an unparseable date: the row is
\* dropped and the rest of the frame is cleaned, and a frame of unparseable
\* dates only gives an empty output.
C11_BadDatesDropped ==
    (to_datetime_raises(df) /\ result.status # "pending") =>
        /\ result.status = "ok"
        /\ \A k \in 1..Len(result.rows) :
               \E i \in 1..Len(df) : df[i].date = Ts(result.rows[k].date)
        /\ Len(ParseableRows(df)) = 0 => result.rows = <<>>

\* C14: the rows transform_fred_data returns are in ascending date order.
C14_AscendingOutput ==
    result.status = "ok" =>
        \A i, j \in 1..Len(result.rows) :
            i < j => result.rows[i].date < result.rows[j].date

\* the rows of a metadata table for series s
MetadataOf(table, s) == {r \in table : r.series_id = s}

\* row r of the table carries the descriptive fields of row f of a frame
Describes(r, f) ==
    /\ r.series_name = f.series_name
    /\ r.description = f.description
    /\ r.units = f.units
    /\ r.frequency = f.frequency
    /\ r.seasonal_adjustment = f.seasonal_adjustment
    /\ IF f.observation_start \in {<<1947, 1, 1>>}
       THEN /\ r.observation_start # <<>>
            /\ Strftime(r.observation_start[1]) = f.observation_start
       ELSE r.observation_start = <<>>

\* C13: a call of load_series_metadata that returns leaves, for each
\* series_id of its frame, exactly one row: inserted with created_at =
\* updated_at = the clock if the series_id was absent, and otherwise with the
\* descriptive fields and updated_at overwritten and created_at as it was;
\* rows of other series are untouched, and no step ever leaves two rows for
\* one series_id or changes a created_at.
C13_UpsertKeepsCreatedAt ==
    [][/\ \A s \in Series : Cardinality(MetadataOf(series_metadata', s)) <= 1
       /\ \A o \in series_metadata :
              \E n \in series_metadata' :
                  n.series_id = o.series_id /\ n.created_at = o.created_at
       /\ (runs' = runs + 1 /\ prev'.outcome = "returned") =>
              /\ \A i \in 1..Len(prev'.batch) :
                     LET f == prev'.batch[i]
                     IN  /\ Cardinality(MetadataOf(series_metadata', f.series_id)) = 1
                         /\ \A n \in MetadataOf(series_metadata', f.series_id) :
                                /\ Describes(n, f)
                                /\ n.updated_at = now
                                /\ MetadataOf(series_metadata, f.series_id) = {}
                                       => n.created_at = now
              /\ \A s \in Series :
                     (\A i \in 1..Len(prev'.batch) : prev'.batch[i].series_id # s)
                         => MetadataOf(series_metadata', s) = MetadataOf(series_metadata, s)
      ]_vars

\* a row inserted at one time was overwritten at a later time with another
\* revision of the descriptive fields
C13_Witness ==
    /\ prev.outcome = "returned"
    /\ \E r \in series_metadata :
           /\ r.created_at < r.updated_at
           /\ r.description = Text("description", 2)
           /\ \E i \in 1..Len(prev.batch) : prev.batch[i].series_id = r.series_id

\* the series whose extraction returned an empty frame in this run, and
\* those whose extraction returned data
EmptyInRun == {s \in Series : progress[s] = "empty"}
DataInRun == {s \in Series : progress[s] \in {"data", "loading", "loaded"}}

\* C12: when a run in which extraction returned an empty frame for a series
\* X and data for a series Y has ended, it has ended normally, X was left
\* without a loader call (its progress is still "empty"), and the loader was
\* called for Y and committed.
C12_EmptyExtractionIsolated ==
    (pc \in {"done", "aborted"} /\ EmptyInRun # {} /\ DataInRun # {}) =>
        /\ pc = "done"
        /\ \A y \in DataInRun : progress[y] = "loaded"

\* the (series_id, date) keys of a table
StoredKeys(table) == {Key(r) : r \in table}

\* a watermark (<<>> or <<day>>) is not later than another
WatermarkLeq(a, b) == a = <<>> \/ (b # <<>> /\ a[1] <= b[1])

\* a start date text (<<>> or <<Y, M, D>>) is not later than another; None
\* asks for the whole history
StartLeq(a, b) ==
    \/ a = <<>>
    \/ /\ b # <<>>
       /\ \/ a[1] < b[1]
          \/ a[1] = b[1] /\ a[2] < b[2]
          \/ a[1] = b[1] /\ a[2] = b[2] /\ a[3] <= b[3]

\* C15: no step of any run removes a stored (series_id, date) key; so the
\* watermark of each series never decreases, and neither does the fetch
\* start computed from it.
C15_NothingRemoved ==
    [][/\ StoredKeys(economic_time_series_data)
              \subseteq StoredKeys(economic_time_series_data')
       /\ \A s \in Series :
              LET last == get_last_load_date(economic_time_series_data, s)
                  last2 == get_last_load_date(economic_time_series_data', s)
              IN  /\ WatermarkLeq(last, last2)
                  /\ StartLeq(ComputeFetchStart(last), ComputeFetchStart(last2))
      ]_vars

\* a second run has added a later observation to a series persisted by the
\* first run
C15_Witness ==
    /\ runs = 2
    /\ pc = "done"
    /\ \E r1, r2 \in economic_time_series_data :
           /\ r1.series_id = r2.series_id
           /\ r1.date < r2.date
           /\ r1.updated_at < r2.updated_at

====
